---- MODULE Spec2Model ----
(***************************************************************************)
(* A model of tuyaapi-extended.js: the retrying, timeout-bounded transport *)
(* (_send / _sendUnwrapped), the request builders (get / set) and the      *)
(* compound verbs (setStatus, toggle, on, off, setColor).                  *)
(***************************************************************************)
EXTENDS Integers, Sequences, FiniteSets, TLC

(***************************************************************************)
(* Bounds of the model and constants of the program.                       *)
(***************************************************************************)
NCalls == 2            \* concurrent _send calls on one device object
MaxConcFailures == 2   \* failed attempts explored when calls run concurrently
Retries == 4           \* retry.operation({retries: 4, ...})
FactorNum == 3         \* factor: 1.5 = FactorNum / FactorDen
FactorDen == 2
MinTimeout == 10000    \* minTimeout: 10000

Calls == 1..NCalls
\* one attempt more than the retries allow can be told apart
Attempts == 1..(Retries + 2)
Ids == Calls \X Attempts

\* JavaScript's undefined, as an address
AddrUndefined == "<undefined>"
Addresses == {AddrUndefined, "", "192.168.1.50"}

\* The two messages an attempt's rejection can carry
MsgComm == "Error communicating with device. Make sure nothing else is trying to control it or connected to it."
MsgTimeout == "Timeout waiting for response"
MsgMissingIp == "Device missing IP address."

\* What the device may answer with
Replies == {"json", "empty", "ciphertext", "badcipher", "garbled"}

NoTimer == <<0, 0>>

\* What a promise settles with: a value, or an error object (its name, its
\* message, and the code of an operating-system error)
NoOutcome == [kind |-> "none", name |-> "", message |-> "", code |-> "", value |-> ""]
Value(v) == [kind |-> "value", name |-> "", message |-> "", code |-> "", value |-> v]
Err(name, message, code) ==
  [kind |-> "error", name |-> name, message |-> message, code |-> code, value |-> ""]

VARIABLES
  callState,    \* _send's promise: idle | pending | resolved | rejected | threw
  callIp,       \* the ip argument of the call
  callResult,   \* the value or error message the call ended with
  attempts,     \* operation._attempts
  opErrors,     \* operation._errors
  opTimeouts,   \* operation._timeouts
  retryTimer,   \* the pending backoff timer of operation.retry (0: none)
  sock,         \* each attempt's client: none | connecting | connected | destroyed
  sockHost,     \* the host each client connects to
  connTimer,    \* client.setTimeout(1000, ...) armed
  respTimer,    \* each attempt's response timer: none | pending | cleared | fired
  promise,      \* _sendUnwrapped's promise: none | pending | resolved | rejected
  promiseVal,   \* what it settled with
  uncaught,     \* the exception thrown out of the attempt's 'data' handler
  writes,       \* client.write(buffer) calls per attempt
  sendTimeout,  \* this._sendTimeout: the timer the device object remembers
  created,      \* the net.Socket objects constructed so far
  client,       \* each attempt's client: which of these objects it is (0: none)
  events        \* the events of each attempt's client and timers, in order

tvars == <<callState, callIp, callResult, attempts, opErrors, opTimeouts, retryTimer,
           sock, sockHost, connTimer, respTimer, promise, promiseVal, uncaught,
           writes, sendTimeout, created, client, events>>

(***************************************************************************)
(* The retry library as _send uses it.                                     *)
(***************************************************************************)
RECURSIVE SumLen(_, _)
SumLen(f, S) ==
  IF S = {} THEN 0
  ELSE LET c == CHOOSE x \in S : TRUE IN Len(f[c]) + SumLen(f, S \ {c})

RECURSIVE Pow(_, _)
Pow(b, e) == IF e = 0 THEN 1 ELSE b * Pow(b, e - 1)

\* a faulty variant of CreateTimeout: the factor is not applied
CreateTimeoutFlat(attempt) == MinTimeout

\* Math.round(minTimeout * factor^attempt)
CreateTimeout(attempt) ==
  (2 * MinTimeout * Pow(FactorNum, attempt) + Pow(FactorDen, attempt))
      \div (2 * Pow(FactorDen, attempt))

\* retry.timeouts({retries, factor, minTimeout}): one wait per retry, sorted
RetryTimeouts == [i \in 1..Retries |-> CreateTimeout(i - 1)]

\* a faulty variant of OperationRetry: gives up one retry early
OperationRetryShort(errors, timeouts, err) ==
  IF Len(timeouts) <= 1
    THEN [again |-> FALSE, errors |-> Append(errors, err), timeouts |-> <<>>, wait |-> 0]
    ELSE [again |-> TRUE, errors |-> Append(errors, err),
          timeouts |-> Tail(timeouts), wait |-> Head(timeouts)]

\* operation.retry(err): push the error, shift the next wait; false when none is left
OperationRetry(errors, timeouts, err) ==
  IF timeouts = <<>>
    THEN [again |-> FALSE, errors |-> Append(errors, err), timeouts |-> timeouts, wait |-> 0]
    ELSE [again |-> TRUE, errors |-> Append(errors, err),
          timeouts |-> Tail(timeouts), wait |-> Head(timeouts)]

\* the fold of operation.mainError(): counts per message, and the error whose
\* count is >= the best count so far
RECURSIVE MainErrorFold(_, _, _, _, _)
MainErrorFold(errors, i, counts, main, mainCount) ==
  IF i > Len(errors) THEN main
  ELSE LET message == errors[i].message
           count == counts[message] + 1
       IN  MainErrorFold(errors, i + 1, [counts EXCEPT ![message] = count],
                         IF count >= mainCount THEN errors[i] ELSE main,
                         IF count >= mainCount THEN count ELSE mainCount)

\* a faulty variant of MainError: the last error
MainErrorLast(errors) == IF errors = <<>> THEN NoOutcome ELSE errors[Len(errors)]

\* operation.mainError(): the most frequent error, the later one on a tie
MainError(errors) ==
  IF errors = <<>> THEN NoOutcome
  ELSE MainErrorFold(errors, 1, [m \in {MsgComm, MsgTimeout} |-> 0], NoOutcome, 0)

(***************************************************************************)
(* Parser.parse and cipher.decrypt on a reply, as the 'data' handler sees  *)
(* them: either a value of some JavaScript type, or an exception.          *)
(***************************************************************************)
Parse(reply) ==
  CASE reply = "json"       -> [throws |-> FALSE, type |-> "object",    value |-> "object"]
    [] reply = "empty"      -> [throws |-> FALSE, type |-> "undefined", value |-> "undefined"]
    [] reply = "ciphertext" -> [throws |-> FALSE, type |-> "string",    value |-> "ciphertext"]
    [] reply = "badcipher"  -> [throws |-> FALSE, type |-> "string",    value |-> "badcipher"]
    [] OTHER                -> [throws |-> TRUE,  type |-> "error",     value |-> "ProtocolDecodeError"]

Decrypt(text) ==
  IF text = "ciphertext"
    THEN [throws |-> FALSE, type |-> "object", value |-> "decrypted"]
    ELSE [throws |-> TRUE,  type |-> "error",  value |-> "CipherError"]

\* lines 184-190: the value the handler resolves with, or the exception it throws
HandleData(reply) ==
  LET data == Parse(reply) IN
    IF data.throws THEN data
    ELSE IF data.type = "object" \/ data.type = "undefined" THEN data
    ELSE Decrypt(data.value)

TypeOfAddr(ip) == IF ip = AddrUndefined THEN "undefined" ELSE "string"

\* net.Socket.connect(port, host): a falsy host means localhost
ConnectHost(ip) == IF ip = "" THEN "localhost" ELSE ip

(***************************************************************************)
(* The initial state: a device object on which nothing was sent yet.       *)
(***************************************************************************)
TInit ==
  /\ callState = [c \in Calls |-> "idle"]
  /\ callIp = [c \in Calls |-> AddrUndefined]
  /\ callResult = [c \in Calls |-> NoOutcome]
  /\ attempts = [c \in Calls |-> 0]
  /\ opErrors = [c \in Calls |-> <<>>]
  /\ opTimeouts = [c \in Calls |-> <<>>]
  /\ retryTimer = [c \in Calls |-> 0]
  /\ sock = [i \in Ids |-> "none"]
  /\ sockHost = [i \in Ids |-> "none"]
  /\ connTimer = [i \in Ids |-> FALSE]
  /\ respTimer = [i \in Ids |-> "none"]
  /\ promise = [i \in Ids |-> "none"]
  /\ promiseVal = [i \in Ids |-> NoOutcome]
  /\ uncaught = [i \in Ids |-> "none"]
  /\ writes = [i \in Ids |-> 0]
  /\ sendTimeout = NoTimer
  /\ created = 0
  /\ client = [i \in Ids |-> 0]
  /\ events = [i \in Ids |-> <<>>]

(***************************************************************************)
(* _sendUnwrapped(ip, buffer): a new client, connect, the connect timeout. *)
(***************************************************************************)
\* a faulty variant of NewSocket: one client, constructed once and kept
NewSocketOnce(n) == IF n = 0 THEN 1 ELSE n

\* line 145: new net.Socket(), an object that did not exist before
NewSocket(n) == n + 1

\* an event of attempt a's client or timers is delivered to its handler
Emit(c, a, event) == events' = [events EXCEPT ![<<c, a>>] = Append(@, event)]

SendUnwrapped(c, a, ip) ==
  /\ created' = NewSocket(created)
  /\ client' = [client EXCEPT ![<<c, a>>] = NewSocket(created)]
  /\ sock' = [sock EXCEPT ![<<c, a>>] = "connecting"]
  /\ sockHost' = [sockHost EXCEPT ![<<c, a>>] = ConnectHost(ip)]
  /\ connTimer' = [connTimer EXCEPT ![<<c, a>>] = TRUE]
  /\ promise' = [promise EXCEPT ![<<c, a>>] = "pending"]

\* line 115: typeof ip === 'undefined'
MissingIp(ip) == TypeOfAddr(ip) = "undefined"

\* _send(ip, buffer): throws on a missing ip; else creates the operation and
\* runs the first attempt (operation.attempt calls its function at once)
Send(c, ip) ==
  /\ callState[c] = "idle"
  /\ callIp' = [callIp EXCEPT ![c] = ip]
  /\ IF MissingIp(ip)
       THEN /\ callState' = [callState EXCEPT ![c] = "threw"]
            /\ callResult' = [callResult EXCEPT ![c] = Err("TypeError", MsgMissingIp, "")]
            /\ UNCHANGED <<attempts, opErrors, opTimeouts, sock, sockHost, connTimer,
                           promise, created, client>>
       ELSE /\ callState' = [callState EXCEPT ![c] = "pending"]
            /\ opTimeouts' = [opTimeouts EXCEPT ![c] = RetryTimeouts]
            /\ opErrors' = [opErrors EXCEPT ![c] = <<>>]
            /\ attempts' = [attempts EXCEPT ![c] = 1]
            /\ SendUnwrapped(c, 1, ip)
            /\ UNCHANGED callResult
  /\ UNCHANGED <<retryTimer, respTimer, promiseVal, uncaught, writes, sendTimeout,
                 events>>

\* the backoff timer of operation.retry fires: the next attempt
RetryTimerFire(c) ==
  /\ retryTimer[c] > 0
  /\ retryTimer' = [retryTimer EXCEPT ![c] = 0]
  /\ attempts' = [attempts EXCEPT ![c] = attempts[c] + 1]
  /\ SendUnwrapped(c, attempts[c] + 1, callIp[c])
  /\ UNCHANGED <<callState, callIp, callResult, opErrors, opTimeouts, respTimer,
                 promiseVal, uncaught, writes, sendTimeout, events>>

(***************************************************************************)
(* The reactions of _send to the attempt's promise (lines 129-137).        *)
(***************************************************************************)
\* .then(result => resolve(result))
AttemptResolved(c, a, value) ==
  /\ promise' = [promise EXCEPT ![<<c, a>>] = "resolved"]
  /\ promiseVal' = [promiseVal EXCEPT ![<<c, a>>] = Value(value)]
  /\ IF callState[c] = "pending"
       THEN /\ callState' = [callState EXCEPT ![c] = "resolved"]
            /\ callResult' = [callResult EXCEPT ![c] = Value(value)]
       ELSE UNCHANGED <<callState, callResult>>
  /\ UNCHANGED <<opErrors, opTimeouts, retryTimer>>

\* .catch(error => { if (operation.retry(error)) return; reject(operation.mainError()) })
AttemptRejected(c, a, err) ==
  /\ promise' = [promise EXCEPT ![<<c, a>>] = "rejected"]
  /\ promiseVal' = [promiseVal EXCEPT ![<<c, a>>] = err]
  /\ LET r == OperationRetry(opErrors[c], opTimeouts[c], err) IN
       /\ opErrors' = [opErrors EXCEPT ![c] = r.errors]
       /\ opTimeouts' = [opTimeouts EXCEPT ![c] = r.timeouts]
       /\ IF r.again
            THEN /\ retryTimer' = [retryTimer EXCEPT ![c] = r.wait]
                 /\ UNCHANGED <<callState, callResult>>
            ELSE /\ callState' = [callState EXCEPT ![c] = "rejected"]
                 /\ callResult' = [callResult EXCEPT ![c] = MainError(r.errors)]
                 /\ UNCHANGED retryTimer

\* a faulty variant of Reject: a settled promise is rejected again
RejectAgain(c, a, err) == AttemptRejected(c, a, err)

\* reject(err) on the attempt's promise: a no-op once it has settled
Reject(c, a, err) ==
  IF promise[<<c, a>>] = "pending"
    THEN AttemptRejected(c, a, err)
    ELSE UNCHANGED <<promise, promiseVal, opErrors, opTimeouts, retryTimer,
                     callState, callResult>>

(***************************************************************************)
(* The client's events.                                                    *)
(***************************************************************************)
\* a faulty variant of ConnectTimerAfterConnect: the connect timeout is left armed
ConnectTimerLeftArmed(armed) == armed

\* line 165: client.setTimeout(0) removes the connect timeout
ConnectTimerAfterConnect(armed) == FALSE

\* 'connect' (lines 161-174): drop the connect timeout, write the frame, start
\* the response timer and remember it in this._sendTimeout
Connect(c, a) ==
  /\ sock[<<c, a>>] = "connecting"
  /\ sock' = [sock EXCEPT ![<<c, a>>] = "connected"]
  /\ connTimer' = [connTimer EXCEPT ![<<c, a>>] = ConnectTimerAfterConnect(@)]
  /\ writes' = [writes EXCEPT ![<<c, a>>] = @ + 1]
  /\ respTimer' = [respTimer EXCEPT ![<<c, a>>] = "pending"]
  /\ sendTimeout' = <<c, a>>
  /\ Emit(c, a, "connect")
  /\ UNCHANGED <<callState, callIp, callResult, attempts, opErrors, opTimeouts,
                 retryTimer, sockHost, promise, promiseVal, uncaught, created, client>>

\* a faulty variant of OnError: the error is passed on as it came
OnErrorAsIs(err) == err

\* the 'error' handler (lines 194-200): the message is overwritten, the rest of
\* the error object kept
OnError(err) == [err EXCEPT !.message = MsgComm]

\* 'error' of a socket that failed (refused, reset): the socket is destroyed and
\* the attempt rejected
SocketError(c, a) ==
  /\ sock[<<c, a>>] \in {"connecting", "connected"}
  /\ sock' = [sock EXCEPT ![<<c, a>>] = "destroyed"]
  /\ connTimer' = [connTimer EXCEPT ![<<c, a>>] = FALSE]
  /\ Reject(c, a, OnError(Err("Error", "socket", "ECONN")))
  /\ Emit(c, a, "error")
  /\ UNCHANGED <<callIp, attempts, sockHost, respTimer, uncaught, writes, sendTimeout,
                 created, client>>

\* the connect timeout (lines 154-158): emit 'error', then destroy
ConnectTimeout(c, a) ==
  /\ connTimer[<<c, a>>]
  /\ sock[<<c, a>>] \in {"connecting", "connected"}
  /\ Reject(c, a, OnError(Err("Error", "connection timed out", "")))
  /\ sock' = [sock EXCEPT ![<<c, a>>] = "destroyed"]
  /\ connTimer' = [connTimer EXCEPT ![<<c, a>>] = FALSE]
  /\ Emit(c, a, "timeout")
  /\ UNCHANGED <<callIp, attempts, sockHost, respTimer, uncaught, writes, sendTimeout,
                 created, client>>

\* clearTimeout(handle): cancels the timer the handle names, if still pending
ClearTimeout(timers, handle) ==
  IF handle # NoTimer /\ timers[handle] = "pending"
    THEN [timers EXCEPT ![handle] = "cleared"]
    ELSE timers

\* 'data' (lines 177-191): clear this._sendTimeout, destroy, parse, resolve; an
\* exception of the parser or the cipher leaves the handler uncaught
Data(c, a, reply) ==
  /\ sock[<<c, a>>] = "connected"
  /\ respTimer' = ClearTimeout(respTimer, sendTimeout)
  /\ sock' = [sock EXCEPT ![<<c, a>>] = "destroyed"]
  /\ connTimer' = [connTimer EXCEPT ![<<c, a>>] = FALSE]
  /\ LET r == HandleData(reply) IN
       IF r.throws
         THEN /\ uncaught' = [uncaught EXCEPT ![<<c, a>>] = r.value]
              /\ UNCHANGED <<promise, promiseVal, opErrors, opTimeouts, retryTimer,
                             callState, callResult>>
         ELSE /\ IF promise[<<c, a>>] = "pending"
                   THEN AttemptResolved(c, a, r.value)
                   ELSE UNCHANGED <<promise, promiseVal, opErrors, opTimeouts,
                                    retryTimer, callState, callResult>>
              /\ UNCHANGED uncaught
  /\ Emit(c, a, "data")
  /\ UNCHANGED <<callIp, attempts, sockHost, writes, sendTimeout, created, client>>

\* the response timer (lines 170-173): destroy, reject
ResponseTimeout(c, a) ==
  /\ respTimer[<<c, a>>] = "pending"
  /\ respTimer' = [respTimer EXCEPT ![<<c, a>>] = "fired"]
  /\ sock' = [sock EXCEPT ![<<c, a>>] = "destroyed"]
  /\ connTimer' = [connTimer EXCEPT ![<<c, a>>] = FALSE]
  /\ Reject(c, a, Err("Error", MsgTimeout, ""))
  /\ Emit(c, a, "responseTimeout")
  /\ UNCHANGED <<callIp, attempts, sockHost, uncaught, writes, sendTimeout, created,
                 client>>

\* the peer closes the connection without data: 'close' (lines 202-204) only logs
Close(c, a) ==
  /\ sock[<<c, a>>] = "connected"
  /\ sock' = [sock EXCEPT ![<<c, a>>] = "destroyed"]
  /\ connTimer' = [connTimer EXCEPT ![<<c, a>>] = FALSE]
  /\ Emit(c, a, "close")
  /\ UNCHANGED <<callState, callIp, callResult, attempts, opErrors, opTimeouts,
                 retryTimer, sockHost, respTimer, promise, promiseVal, uncaught,
                 writes, sendTimeout, created, client>>

(***************************************************************************)
(* JavaScript values of the request builders.  A scalar is a token: the    *)
(* booleans "true" and "false", numbers "n:<digits>", other strings as     *)
(* themselves, and "undefined".  An object is a function from ObjKeys to   *)
(* scalars in which an absent key reads as "undefined".                    *)
(***************************************************************************)
Undef == "undefined"
PropKeys == {"1", "2"}
ObjKeys == PropKeys \cup {"dps", "set", "schema"}
PropValues == {"true", "false", "n:5"}
KeySpecs == {"1", "2", "n:2"}
Scalars == PropValues \cup KeySpecs \cup {Undef}

EmptyMap == [k \in ObjKeys |-> Undef]

\* the maps a device can hold: data points only
DeviceMaps ==
  {[EmptyMap EXCEPT !["1"] = a, !["2"] = b] : a, b \in PropValues \cup {Undef}}

\* the objects a caller passes to get
GetOptions ==
  {[EmptyMap EXCEPT !["schema"] = s, !["dps"] = d] :
     s \in {Undef, "true", "false"}, d \in KeySpecs \cup {Undef}}

\* the objects a caller passes to set and setStatus: {dps, set}, {set}, a raw
\* property map, and their mixtures
SetOptions ==
  {[EmptyMap EXCEPT !["dps"] = d, !["set"] = v, !["1"] = a, !["2"] = b] :
     d \in KeySpecs \cup {Undef}, v \in PropValues \cup {Undef},
     a \in {Undef, "true", "false"}, b \in {Undef, "n:5"}}

Keys(m) == {k \in ObjKeys : m[k] # Undef}

\* a value of any type, in one shape: a scalar, a property map, the decoded
\* response object (with or without a dps field)
ScalarVal(s) == [t |-> "scalar", s |-> s, o |-> EmptyMap]
MapVal(m) == [t |-> "map", s |-> "", o |-> m]
DataVal(hasDps, m) == [t |-> "data", s |-> IF hasDps THEN "dps" ELSE "nodps",
                       o |-> IF hasDps THEN m ELSE EmptyMap]
UndefVal == ScalarVal(Undef)
ErrorVal(msg) == [t |-> "error", s |-> msg, o |-> EmptyMap]

\* String(key): the property name a key designates
KeyToString(k) ==
  CASE k = "n:1" -> "1"
    [] k = "n:2" -> "2"
    [] k = "n:5" -> "5"
    [] OTHER -> k

\* JavaScript truthiness of a scalar
Truthy(s) == s \notin {Undef, "false", "n:0", ""}

\* !value
Not(v) == IF v.t = "scalar" /\ ~Truthy(v.s) THEN "true" ELSE "false"

\* the shaping with the default taken only for a map whose single key is "1"
SpecifiedShape(data, options) ==
  IF data.t # "data" THEN ErrorVal("TypeError")
  ELSE LET dps == IF data.s = "dps" THEN MapVal(data.o) ELSE UndefVal IN
    IF options["schema"] = "true" THEN data
    ELSE IF Truthy(options["dps"])
      THEN IF dps.t # "map" THEN ErrorVal("TypeError")
           ELSE LET key == KeyToString(options["dps"]) IN
                  IF key \in ObjKeys THEN ScalarVal(dps.o[key]) ELSE UndefVal
    ELSE IF dps.t = "map" /\ Keys(dps.o) = {"1"}
      THEN ScalarVal(dps.o["1"])
      ELSE dps

\* get's reaction to the decoded response (lines 37-49): the value the query
\* resolves with, or the TypeError that rejects it
GetShape(data, options) ==
  IF data.t # "data" THEN ErrorVal("TypeError")
  ELSE LET dps == IF data.s = "dps" THEN MapVal(data.o) ELSE UndefVal IN
    IF options["schema"] = "true" THEN data
    ELSE IF Truthy(options["dps"])
      THEN IF dps.t # "map" THEN ErrorVal("TypeError")
           ELSE LET key == KeyToString(options["dps"]) IN
                  IF key \in ObjKeys THEN ScalarVal(dps.o[key]) ELSE UndefVal
    ELSE IF dps.t = "map" /\ dps.o["1"] # Undef
      THEN ScalarVal(dps.o["1"])
      ELSE dps

\* a faulty variant of SetDps: the dps option is ignored
SetDpsIgnoreKey(options) ==
  IF options["dps"] # Undef \/ options["set"] # Undef
    THEN [EmptyMap EXCEPT !["1"] = options["set"]]
    ELSE options

\* set's option dispatch (lines 57-72)
SetDps(options) ==
  IF options["dps"] # Undef \/ options["set"] # Undef
    THEN IF options["dps"] = Undef
           THEN [EmptyMap EXCEPT !["1"] = options["set"]]
           ELSE [EmptyMap EXCEPT ![KeyToString(options["dps"])] = options["set"]]
    ELSE options

\* lines 77-102: the control payload, encrypted, signed and framed
ControlFrame(devId, version, key, now, options) ==
  [commandByte |-> "07", encrypted |-> TRUE, version |-> version, signedWith |-> key,
   gwId |-> Undef, devId |-> devId, uid |-> "", t |-> now, dps |-> SetDps(options)]

\* lines 23-34: the query frame, plain JSON
QueryFrame(devId) ==
  [commandByte |-> "0a", encrypted |-> FALSE, version |-> "", signedWith |-> "",
   gwId |-> devId, devId |-> devId, uid |-> Undef, t |-> Undef, dps |-> EmptyMap]

(***************************************************************************)
(* The device object and the call running on it, for the request builders  *)
(* and the compound verbs.  A frame handed to _send is logged with the     *)
(* state of the promise get or set returned for it.                        *)
(***************************************************************************)
DevId == "device-id"
DevKey == "0123456789abcdef"
DevVersion == "3.1"
Now == "1541000000"

Verbs == {"on", "off", "toggle", "setColor", "setStatus"}

VARIABLES
  devIp,     \* this.device.ip
  devDps,    \* the data points the device holds
  op,        \* the running call: its name, its options, whether it has a callback
  pc,        \* where the call stands
  frames,    \* the frames handed to _send during the call, in order
  cbLog,     \* the statuses the callback was called with
  result     \* the promise a get or set call returned

avars == <<devIp, devDps, op, pc, frames, cbLog, result>>
vars == <<tvars, avars>>

NoOp == [name |-> "none", options |-> EmptyMap, hasCb |-> FALSE]
NoResult == [state |-> "none", value |-> UndefVal]

AIdle ==
  /\ op = NoOp
  /\ pc = "idle"
  /\ frames = <<>>
  /\ cbLog = <<>>
  /\ result = NoResult

AInit ==
  /\ devIp \in {AddrUndefined, "192.168.1.50"}
  /\ devDps \in DeviceMaps
  /\ AIdle

\* this._send(this.device.ip, buffer) in a promise executor: the frame is on its
\* way, or _send threw and the promise is rejected at once
Request(log, frame, ip) ==
  Append(log, [frame |-> frame,
               state |-> IF MissingIp(ip) THEN "threw" ELSE "pending",
               data |-> UndefVal,
               value |-> UndefVal])

Pending == frames # <<>> /\ frames[Len(frames)].state = "pending"
Threw == frames # <<>> /\ frames[Len(frames)].state = "threw"
\* the promise settles: what _send resolved with, and what the promise ends with
Settle(log, state, data, value) ==
  [log EXCEPT ![Len(log)] = [@ EXCEPT !.state = state, !.data = data, !.value = value]]

\* get(options) called by the user
CallGet(options) ==
  /\ pc = "idle"
  /\ op' = [name |-> "get", options |-> options, hasCb |-> FALSE]
  /\ frames' = Request(<<>>, QueryFrame(DevId), devIp)
  /\ pc' = "get"
  /\ cbLog' = <<>>
  /\ result' = [state |-> "pending", value |-> UndefVal]
  /\ UNCHANGED <<devIp, devDps>>

\* set(options) called by the user
CallSet(options) ==
  /\ pc = "idle"
  /\ op' = [name |-> "set", options |-> options, hasCb |-> FALSE]
  /\ frames' = Request(<<>>, ControlFrame(DevId, DevVersion, DevKey, Now, options), devIp)
  /\ pc' = "set"
  /\ cbLog' = <<>>
  /\ result' = [state |-> "pending", value |-> UndefVal]
  /\ UNCHANGED <<devIp, devDps>>

\* setStatus(options, callback) (lines 216-218): the update goes out at once
SetStatus(log, options) ==
  Request(log, ControlFrame(DevId, DevVersion, DevKey, Now, options), devIp)

CallSetStatus(options, hasCb) ==
  /\ pc = "idle"
  /\ op' = [name |-> "setStatus", options |-> options, hasCb |-> hasCb]
  /\ frames' = SetStatus(<<>>, options)
  /\ pc' = "update"
  /\ cbLog' = <<>>
  /\ result' = NoResult
  /\ UNCHANGED <<devIp, devDps>>

\* on, off, toggle (lines 231-240, 265-286) and setColor (lines 253-263) start
\* with resolveId(); setColor has its data points computed before
CallVerb(name, options, hasCb) ==
  /\ pc = "idle"
  /\ op' = [name |-> name, options |-> options, hasCb |-> hasCb]
  /\ frames' = <<>>
  /\ pc' = "resolveId"
  /\ cbLog' = <<>>
  /\ result' = NoResult
  /\ UNCHANGED <<devIp, devDps>>

\* resolveId() resolves: the status query
ResolveIdResolves ==
  /\ pc = "resolveId"
  /\ frames' = Request(frames, QueryFrame(DevId), devIp)
  /\ pc' = "query1"
  /\ UNCHANGED <<devIp, devDps, op, cbLog, result>>

\* resolveId() rejects: no handler, nothing follows
ResolveIdRejects ==
  /\ pc = "resolveId"
  /\ pc' = "halted"
  /\ UNCHANGED <<devIp, devDps, op, frames, cbLog, result>>

\* the options a verb passes to setStatus, given the status it has read
VerbOptions(name, options, status) ==
  CASE name = "on" -> [EmptyMap EXCEPT !["set"] = "true"]
    [] name = "off" -> [EmptyMap EXCEPT !["set"] = "false"]
    [] name = "toggle" -> [EmptyMap EXCEPT !["set"] = Not(status)]
    [] OTHER -> options

\* the device takes the data points of a control frame
Apply(dps, frame) ==
  IF frame.commandByte = "07"
    THEN [k \in ObjKeys |->
            IF k \in PropKeys /\ frame.dps[k] # Undef THEN frame.dps[k] ELSE dps[k]]
    ELSE dps

\* what _send resolves with: the decoded answer of the device
QueryReplies == {"dps", "nodps", "undefined"}
Response(reply, dps) ==
  CASE reply = "dps" -> DataVal(TRUE, dps)
    [] reply = "nodps" -> DataVal(FALSE, dps)
    [] OTHER -> UndefVal

LastFrame == frames[Len(frames)].frame

\* get's promise settles (lines 37-52)
GetSettles(reply) ==
  /\ pc = "get"
  /\ Pending
  /\ LET data == Response(reply, devDps)
         r == GetShape(data, op.options)
         state == IF r.t = "error" THEN "rejected" ELSE "resolved"
     IN  /\ frames' = Settle(frames, state, data, r)
         /\ result' = [state |-> state, value |-> r]
  /\ pc' = "done"
  /\ UNCHANGED <<devIp, devDps, op, cbLog>>

\* set's promise resolves (lines 105-107)
SetSettles ==
  /\ pc = "set"
  /\ Pending
  /\ devDps' = Apply(devDps, LastFrame)
  /\ frames' = Settle(frames, "resolved", UndefVal, ScalarVal("true"))
  /\ result' = [state |-> "resolved", value |-> ScalarVal("true")]
  /\ pc' = "done"
  /\ UNCHANGED <<devIp, op, cbLog>>

\* the status query of a verb resolves: setStatus with the verb's options
Query1Resolves(reply) ==
  /\ pc = "query1"
  /\ Pending
  /\ LET data == Response(reply, devDps)
         r == GetShape(data, EmptyMap)
     IN  IF r.t = "error"
           THEN /\ frames' = Settle(frames, "rejected", data, r)
                /\ pc' = "halted"
           ELSE /\ frames' = SetStatus(Settle(frames, "resolved", data, r),
                                       VerbOptions(op.name, op.options, r))
                /\ pc' = "update"
  /\ UNCHANGED <<devIp, devDps, op, cbLog, result>>

\* a faulty variant of UpdateContinues: the re-query follows a failed update too
UpdateContinuesAlways(state) == TRUE

\* line 218: set(options).then(...) goes on only when the update resolved
UpdateContinues(state) == state = "resolved"

\* line 222: the callback gets the status the re-query resolved with
CallbackStatus(log) == log[Len(log)].value

\* the update of setStatus resolves: the re-query (line 219)
UpdateResolves ==
  /\ pc = "update"
  /\ Pending
  /\ devDps' = Apply(devDps, LastFrame)
  /\ IF UpdateContinues("resolved")
       THEN /\ frames' = Request(Settle(frames, "resolved", UndefVal, ScalarVal("true")),
                                 QueryFrame(DevId), devIp)
            /\ pc' = "query2"
       ELSE /\ frames' = Settle(frames, "resolved", UndefVal, ScalarVal("true"))
            /\ pc' = "halted"
  /\ UNCHANGED <<devIp, op, cbLog, result>>

\* the re-query resolves: the callback, if there is one (lines 219-226)
Query2Resolves(reply) ==
  /\ pc = "query2"
  /\ Pending
  /\ LET data == Response(reply, devDps)
         r == GetShape(data, EmptyMap)
         log == Settle(frames, IF r.t = "error" THEN "rejected" ELSE "resolved", data, r)
     IN  /\ frames' = log
         /\ IF r.t = "error"
              THEN pc' = "halted" /\ UNCHANGED cbLog
              ELSE /\ pc' = "done"
                   /\ cbLog' = IF op.hasCb THEN Append(cbLog, CallbackStatus(log))
                                           ELSE cbLog
  /\ UNCHANGED <<devIp, devDps, op, result>>

\* _send rejects (retries exhausted); a control frame may have reached the device
SendRejects(err, applied) ==
  /\ Pending
  /\ devDps' = IF applied THEN Apply(devDps, LastFrame) ELSE devDps
  /\ LET log == Settle(frames, "rejected", UndefVal, ErrorVal(err)) IN
       IF pc \in {"get", "set"}
         THEN /\ frames' = log
              /\ result' = [state |-> "rejected", value |-> ErrorVal(err)]
              /\ pc' = "done"
         ELSE IF pc = "update" /\ UpdateContinues("rejected")
           THEN /\ frames' = Request(log, QueryFrame(DevId), devIp)
                /\ pc' = "query2"
                /\ UNCHANGED result
           ELSE /\ frames' = log
                /\ pc' = "halted"
                /\ UNCHANGED result
  /\ UNCHANGED <<devIp, op, cbLog>>

\* _send threw for the missing ip: the promise of get or set is rejected
SendThrew ==
  /\ Threw
  /\ pc \notin {"done", "halted"}
  /\ IF pc \in {"get", "set"}
       THEN /\ result' = [state |-> "rejected", value |-> ErrorVal(MsgMissingIp)]
            /\ pc' = "done"
            /\ UNCHANGED frames
       ELSE IF pc = "update" /\ UpdateContinues("rejected")
         THEN /\ frames' = Request(frames, QueryFrame(DevId), devIp)
              /\ pc' = "query2"
              /\ UNCHANGED result
         ELSE /\ pc' = "halted"
              /\ UNCHANGED <<frames, result>>
  /\ UNCHANGED <<devIp, devDps, op, cbLog>>

ANext ==
  \/ (\E o \in GetOptions : CallGet(o)) /\ UNCHANGED tvars
  \/ (\E o \in SetOptions : CallSet(o)) /\ UNCHANGED tvars
  \/ (\E o \in SetOptions, cb \in BOOLEAN : CallSetStatus(o, cb)) /\ UNCHANGED tvars
  \/ (\E v \in {"on", "off", "toggle"}, cb \in BOOLEAN : CallVerb(v, EmptyMap, cb)) /\ UNCHANGED tvars
  \/ (\E m \in DeviceMaps, cb \in BOOLEAN : CallVerb("setColor", m, cb)) /\ UNCHANGED tvars
  \/ (ResolveIdResolves) /\ UNCHANGED tvars
  \/ (ResolveIdRejects) /\ UNCHANGED tvars
  \/ (\E reply \in QueryReplies : GetSettles(reply)) /\ UNCHANGED tvars
  \/ (SetSettles) /\ UNCHANGED tvars
  \/ (\E reply \in QueryReplies : Query1Resolves(reply)) /\ UNCHANGED tvars
  \/ (UpdateResolves) /\ UNCHANGED tvars
  \/ (\E reply \in QueryReplies : Query2Resolves(reply)) /\ UNCHANGED tvars
  \/ (\E err \in {MsgComm, MsgTimeout}, applied \in BOOLEAN : SendRejects(err, applied)) /\ UNCHANGED tvars
  \/ (SendThrew) /\ UNCHANGED tvars

\* what a step of the transport leaves alone, and the cap on failed attempts
TFrame(max) ==
  /\ UNCHANGED avars
  /\ SumLen(opErrors', Calls) <= max

TStep(c, max) ==
  \/ (\E ip \in Addresses : Send(c, ip)) /\ TFrame(max)
  \/ RetryTimerFire(c) /\ TFrame(max)
  \/ (\E a \in Attempts : Connect(c, a)) /\ TFrame(max)
  \/ (\E a \in Attempts : SocketError(c, a)) /\ TFrame(max)
  \/ (\E a \in Attempts : ConnectTimeout(c, a)) /\ TFrame(max)
  \/ (\E a \in Attempts, reply \in Replies : Data(c, a, reply)) /\ TFrame(max)
  \/ (\E a \in Attempts : ResponseTimeout(c, a)) /\ TFrame(max)
  \/ (\E a \in Attempts : Close(c, a)) /\ TFrame(max)

(***************************************************************************)
(* Specifications.                                                         *)
(***************************************************************************)
\* no request builder runs: the transport alone
AQuiet ==
  /\ devIp = AddrUndefined
  /\ devDps = EmptyMap
  /\ AIdle

\* one _send call, every behaviour of the device and every order of the timers
TNext == TStep(1, NCalls * (Retries + 1))
Init == TInit /\ AQuiet
Spec == Init /\ [][TNext]_vars

\* timers that are pending fire
TimerFires(c) ==
  \/ RetryTimerFire(c)
  \/ \E a \in Attempts : ConnectTimeout(c, a)
  \/ \E a \in Attempts : ResponseTimeout(c, a)
SpecFair == Spec /\ WF_vars(TimerFires(1) /\ UNCHANGED avars)

\* several _send calls on the same device object, with at most MaxConcFailures
\* failed attempts between them
ConcNext == \E c \in Calls : TStep(c, MaxConcFailures)
SpecConc == Init /\ [][ConcNext]_vars

\* the request builders and the verbs, over _send's outcomes
ApiInit == TInit /\ AInit
SpecApi == ApiInit /\ [][ANext]_vars

(***************************************************************************)
(* Claims.                                                                 *)
(***************************************************************************)
Count(errors, message) == Cardinality({i \in 1..Len(errors) : errors[i].message = message})
Started(c) == {a \in Attempts : sock[<<c, a>>] # "none"}

\* C1: a _send call makes at most 5 attempts, one socket each; it is rejected
\* only after the 5th attempt has failed, and then it is rejected: with every
\* attempt failing on a connection error, exactly 5 attempts are made.
C1_RetryExhaustion ==
  \A c \in Calls :
    /\ attempts[c] <= 5
    /\ Cardinality(Started(c)) = attempts[c]
    /\ callState[c] = "rejected" =>
         /\ attempts[c] = 5
         /\ Len(opErrors[c]) = 5
         /\ \A a \in 1..5 : promise[<<c, a>>] = "rejected"
         /\ retryTimer[c] = 0
    /\ Len(opErrors[c]) = 5 => callState[c] = "rejected"

C1_Witness ==
  /\ callState[1] = "rejected"
  /\ attempts[1] = 5
  /\ \A i \in 1..5 : opErrors[1][i].message = MsgComm

\* C2: a send with an undefined or an empty address opens no socket, starts no
\* attempt and no timer, and reports the missing address.
C2_FailFast ==
  \A c \in Calls :
    (callState[c] # "idle" /\ callIp[c] \in {AddrUndefined, ""}) =>
      /\ callState[c] = "threw"
      /\ callResult[c].message = MsgMissingIp
      /\ attempts[c] = 0
      /\ retryTimer[c] = 0
      /\ \A a \in Attempts : sock[<<c, a>>] = "none" /\ ~connTimer[<<c, a>>]

\* C3: with timers that fire, a send call that is pending eventually settles.
C3_EventuallySettles ==
  (callState[1] = "pending") ~> (callState[1] \in {"resolved", "rejected"})

C5_SurfacesLastError ==
  \A c \in Calls :
    callState[c] = "rejected" =>
      callResult[c].message = opErrors[c][Len(opErrors[c])].message

\* C5 as amended: the error of a rejected call is the latest error among those
\* whose message occurred most often in the failed attempts.
C5_SurfacesMostFrequentError ==
  \A c \in Calls :
    callState[c] = "rejected" =>
      LET errs == opErrors[c]
          m == callResult[c].message
          last == CHOOSE i \in 1..Len(errs) :
                    /\ errs[i].message = m
                    /\ \A j \in (i + 1)..Len(errs) : errs[j].message # m
      IN  /\ \E i \in 1..Len(errs) : errs[i].message = m
          /\ \A n \in {MsgComm, MsgTimeout} : Count(errs, m) >= Count(errs, n)
          /\ callResult[c] = errs[last]

C5_Witness ==
  /\ callState[1] = "rejected"
  /\ \A i \in 1..3 : opErrors[1][i].message = MsgComm
  /\ \A i \in 4..5 : opErrors[1][i].message = MsgTimeout
  /\ callResult[1].message = MsgComm

\* C6: an exception of the parser or the cipher in the 'data' handler rejects
\* the call, with no further attempt.
C6_DecodeErrorRejects ==
  \A c \in Calls, a \in Attempts :
    uncaught[<<c, a>>] # "none" =>
      /\ callState[c] = "rejected"
      /\ callResult[c].name = uncaught[<<c, a>>]
      /\ attempts[c] = a

\* C7: a response timer is cancelled only by data on its own attempt, and data
\* on an attempt cancels that attempt's timer.
DataArrived(i) == promise[i] = "resolved" \/ uncaught[i] # "none"
C7_TimerIsolation ==
  \A i \in Ids :
    /\ respTimer[i] = "cleared" => DataArrived(i)
    /\ DataArrived(i) => respTimer[i] = "cleared"

GetDone ==
  /\ op.name = "get"
  /\ pc = "done"
  /\ frames[1].data.t = "data"
  /\ frames[1].data.s = "dps"

\* C8 as claimed: a query resolves with the whole object for schema, with dps[k]
\* for dps = k, else with dps["1"] if and only if "1" is the single key of the
\* map, and with the whole map otherwise.
C8_QueryShaping ==
  GetDone =>
    /\ result.state = "resolved"
    /\ result.value = SpecifiedShape(frames[1].data, op.options)

\* C8 as amended: a query resolves with the whole object for schema, with dps[k]
\* for dps = k, else with dps["1"] whenever the map has a value for "1", and
\* with the whole map otherwise.
C8_QueryShapingAnyMapWithKey1 ==
  GetDone =>
    LET data == frames[1].data
        o == op.options
    IN  /\ result.state = "resolved"
        /\ o["schema"] = "true" => result.value = data
        /\ (o["schema"] # "true" /\ o["dps"] # Undef) =>
             result.value = ScalarVal(data.o[KeyToString(o["dps"])])
        /\ (o["schema"] # "true" /\ o["dps"] = Undef /\ data.o["1"] # Undef) =>
             result.value = ScalarVal(data.o["1"])
        /\ (o["schema"] # "true" /\ o["dps"] = Undef /\ data.o["1"] = Undef) =>
             result.value = MapVal(data.o)

C8_Witness ==
  /\ GetDone
  /\ op.options = EmptyMap
  /\ Keys(frames[1].data.o) = {"1", "2"}
  /\ result.value = ScalarVal(frames[1].data.o["1"])

\* C9: set builds one control frame, whose data points are {k: v} for
\* {dps: k, set: v}, {"1": v} for {set: v} alone, and the options themselves
\* for a raw property map.
OnlyKeys(o, K) == Keys(o) = K
C9_UpdateDispatch ==
  op.name = "set" =>
    LET o == op.options
        sent == frames[1].frame
    IN  /\ Len(frames) = 1
        /\ sent.commandByte = "07"
        /\ OnlyKeys(o, {"dps", "set"}) =>
             sent.dps = [k \in ObjKeys |-> IF k = KeyToString(o["dps"]) THEN o["set"]
                                                                      ELSE Undef]
        /\ OnlyKeys(o, {"set"}) =>
             sent.dps = [k \in ObjKeys |-> IF k = "1" THEN o["set"] ELSE Undef]
        /\ (o["dps"] = Undef /\ o["set"] = Undef) => sent.dps = o

C9_Witness ==
  /\ op.name = "set"
  /\ pc = "done"
  /\ op.options["dps"] = "n:2"
  /\ op.options["set"] = "true"
  /\ Keys(frames[1].frame.dps) = {"2"}

\* C10: in a compound verb every request goes out only after the request before
\* it has resolved, in the order query, update, re-query (update, re-query for
\* setStatus), and the callback is called only after the re-query resolved,
\* with the status it resolved with.
IsPrefix(s, t) == Len(s) <= Len(t) /\ \A i \in 1..Len(s) : s[i] = t[i]
Commands == [i \in 1..Len(frames) |-> frames[i].frame.commandByte]
VerbPlan == IF op.name = "setStatus" THEN <<"07", "0a">> ELSE <<"0a", "07", "0a">>
C10_VerbOrder ==
  op.name \in Verbs =>
    /\ IsPrefix(Commands, VerbPlan)
    /\ \A i \in 2..Len(frames) : frames[i - 1].state = "resolved"
    /\ cbLog # <<>> =>
         /\ Len(frames) = Len(VerbPlan)
         /\ frames[Len(frames)].state = "resolved"
         /\ cbLog = <<frames[Len(frames)].value>>
         /\ op.hasCb

C10_Witness ==
  /\ op.name = "toggle"
  /\ pc = "done"
  /\ Len(cbLog) = 1
  /\ frames[1].value = ScalarVal("true")
  /\ cbLog[1] = ScalarVal("false")

\* the attempts of a call whose promise is not settled, and its timers that can
\* still fire
InProgress(c) == {a \in Attempts : promise[<<c, a>>] = "pending"}
ConnectTimers(c) == {a \in Attempts : connTimer[<<c, a>>]}
ResponseTimers(c) == {a \in Attempts : respTimer[<<c, a>>] = "pending"}

\* C11: within a call an attempt has started only if the attempt before it was
\* rejected, its socket closed and none of its timers pending; the backoff timer
\* runs only while no attempt is in progress, and never are two attempts in
\* progress.
C11_SequentialRetries ==
  \A c \in Calls :
    /\ Cardinality(InProgress(c)) <= 1
    /\ retryTimer[c] > 0 => InProgress(c) = {}
    /\ \A a \in Attempts :
         (a > 1 /\ sock[<<c, a>>] # "none") =>
           /\ promise[<<c, a - 1>>] = "rejected"
           /\ sock[<<c, a - 1>>] = "destroyed"
           /\ ~connTimer[<<c, a - 1>>]
           /\ respTimer[<<c, a - 1>>] # "pending"

\* C12: over all attempts of a call, at most one timer, a connect timeout or a
\* response timer, is pending.
C12_OneTimerPending ==
  \A c \in Calls :
    Cardinality(ConnectTimers(c)) + Cardinality(ResponseTimers(c)) <= 1

\* C13: once an attempt's promise has settled, its socket is closed and neither
\* its connect timeout nor its response timer is pending.
C13_NothingPendingOnceSettled ==
  \A i \in Ids :
    promise[i] \in {"resolved", "rejected"} =>
      /\ sock[i] = "destroyed"
      /\ ~connTimer[i]
      /\ respTimer[i] # "pending"

\* C14: the wait started after the n-th failed attempt of a call is the n-th of
\* 10000, 15000, 22500, 33750 ms: each at least the minimum of 10000 ms, none
\* shorter than the one before; there is no wait after the 5th.
C14_BackoffWaits ==
  LET waits == <<10000, 15000, 22500, 33750>> IN
    /\ \A n \in 1..4 : waits[n] >= 10000 /\ (n > 1 => waits[n] >= waits[n - 1])
    /\ \A c \in Calls :
         retryTimer[c] > 0 =>
           /\ attempts[c] \in 1..4
           /\ Len(opErrors[c]) = attempts[c]
           /\ retryTimer[c] = waits[attempts[c]]

C14_Witness ==
  /\ attempts[1] = 4
  /\ retryTimer[1] = 33750

\* C15: every attempt has a client of its own, constructed for it: no client
\* object belongs to two attempts, of one call or of two; and within a call at
\* most one socket is open, the socket of an attempt being closed before the
\* next attempt has one.
Open(c) == {a \in Attempts : sock[<<c, a>>] \in {"connecting", "connected"}}
C15_FreshSocketPerAttempt ==
  /\ \A i \in Ids :
       /\ sock[i] # "none" <=> client[i] # 0
       /\ client[i] <= created
  /\ \A i, j \in Ids : (i # j /\ client[i] # 0) => client[i] # client[j]
  /\ \A c \in Calls :
       /\ Cardinality(Open(c)) <= 1
       /\ \A a \in Attempts :
            (a > 1 /\ sock[<<c, a>>] # "none") => sock[<<c, a - 1>>] = "destroyed"

C15_Witness ==
  /\ sock[<<1, 1>>] = "destroyed"
  /\ sock[<<1, 2>>] = "connected"
  /\ sock[<<2, 1>>] = "connected"
  /\ created = 3

\* C16: an attempt whose connect timeout fired had no connect event: nothing
\* was written and no response timer started; its socket is destroyed and it is
\* rejected with the device-communication message, not the response-timeout
\* one; the error is handed to operation.retry like a socket error's: recorded,
\* followed by the next wait, or by the rejection of the call after the 5th.
Happened(i, event) == \E n \in 1..Len(events[i]) : events[i][n] = event
Position(i, event) == CHOOSE n \in 1..Len(events[i]) : events[i][n] = event
C17_DataCancelsOwnTimer ==
  \A i \in Ids :
    Happened(i, "data") =>
      /\ sock[i] = "destroyed"
      /\ respTimer[i] = "cleared"
      /\ Happened(i, "responseTimeout") =>
           Position(i, "responseTimeout") < Position(i, "data")

\* C18: once an attempt of a call has resolved, the call is resolved with that
\* attempt's value and stays as it is: this attempt is the call's last, no
\* socket exists for a later one, no backoff timer runs, and only the failures
\* before it are recorded, whatever fires afterwards.
C18_ResolvedIsFinal ==
  \A c \in Calls, a \in Attempts :
    promise[<<c, a>>] = "resolved" =>
      /\ callState[c] = "resolved"
      /\ callResult[c] = promiseVal[<<c, a>>]
      /\ attempts[c] = a
      /\ retryTimer[c] = 0
      /\ Len(opErrors[c]) = a - 1
      /\ \A b \in Attempts : b > a => sock[<<c, b>>] = "none" /\ client[<<c, b>>] = 0

C18_Witness ==
  /\ promise[<<1, 2>>] = "resolved"
  /\ events[<<1, 1>>] = <<"connect", "error", "responseTimeout">>
  /\ callState[1] = "resolved"

\* C19: the outcome of an attempt is that of the first terminating event on it
\* (socket error, connect timeout, response timeout, data that decodes),
\* whatever follows; every failed attempt is recorded once by operation.retry, in order, and the
\* attempt counter is the number of failed attempts, plus one while an attempt
\* is under way or has completed.
Terminating == {"error", "timeout", "responseTimeout", "data"}
FirstTerminating(i) ==
  LET at == {n \in 1..Len(events[i]) : events[i][n] \in Terminating}
  IN  IF at = {} THEN "none"
      ELSE events[i][CHOOSE n \in at : \A m \in at : n <= m]
Failed(c) == {a \in Attempts : promise[<<c, a>>] = "rejected"}
FailedRequests == {n \in 1..Len(frames) : frames[n].state \in {"rejected", "threw"}}
C20_CallbackOnSuccessOnly ==
  op.name \in Verbs =>
    /\ Len(cbLog) <= 1
    /\ pc = "halted" => cbLog = <<>>
    /\ FailedRequests # {} =>
         /\ cbLog = <<>>
         /\ FailedRequests = {Len(frames)}

C20_Witness ==
  /\ op.name = "on"
  /\ op.hasCb
  /\ pc = "halted"
  /\ Len(frames) = 2
  /\ frames[1].state = "resolved"
  /\ frames[2].state = "rejected"
  /\ cbLog = <<>>

====
